---- MODULE Spec2Model ----
(***************************************************************************)
(* Model of the Obsidian plugin VimImPlugin (src/main.ts): the vim-mode     *)
(* change handler, the two IME actions onInsert / onNormal, execSwitch, the *)
(* file-open and focus handlers, the settings tab and the settings mapping. *)
(*                                                                          *)
(* Strings that the code transforms (command templates, IME identifiers,    *)
(* command output) are sequences of one-character strings, so that          *)
(* String.prototype.replace is computed and not assumed.                    *)
(*                                                                          *)
(* JavaScript is single threaded: a handler runs without interruption from  *)
(* the event that starts or resumes it up to its next await on a child      *)
(* process.  Each such run is one action of the model.                      *)
(***************************************************************************)
EXTENDS Naturals, Sequences, FiniteSets

VARIABLES
    settings,         \* this.settings: <<>> while undefined, <<Settings>> once populated
    data,             \* what the plugin's data store holds (loadData / saveData)
    previousIMEMode,  \* this.previousIMEMode: a string or Null
    previousVimMode,  \* this.previousVimMode
    isWinPlatform,    \* this.isWinPlatform
    osType,           \* what os.type() reports on this host
    loaded,           \* onload() has run
    fileOpenOn,       \* the 'file-open' handler is registered
    focusOn,          \* the window 'focus' handler is registered
    tasks,            \* the handlers waiting for a child process, oldest first
    out,              \* what the last step did: its event and its effects, in order
    seen,             \* the mode notifications delivered so far and the IME actions
                      \* they invoked, while they follow Scenario
    insertSeen,       \* an "insert" notification has been delivered
    leftWith          \* the output of the obtain command run for the notification
                      \* that last left insert mode; Null when there is none
                      \* since onload, or a command has failed since

vars == << settings, data, previousIMEMode, previousVimMode, isWinPlatform, osType,
           loaded, fileOpenOn, focusOn, tasks, out, seen, insertSeen, leftWith >>

----------------------------------------------------------------------------
(* Bounds of the model *)

\* handlers waiting for a child process at the same time
MaxInFlight == 2

----------------------------------------------------------------------------
(* Strings *)

\* the value null of `string | null'
Null == << "<null>" >>

\* the value undefined, where a string is expected
Undefined == "<undefined>"

Placeholder == << "{", "i", "m", "}" >>

Whitespace == { " ", "\n", "\t" }

\* does pat occur in s at position i (1-based)
MatchAt(s, pat, i) ==
    /\ i >= 1
    /\ i + Len(pat) - 1 <= Len(s)
    /\ SubSeq(s, i, i + Len(pat) - 1) = pat

\* position of the first occurrence of pat in s, 0 when there is none
IndexOf(s, pat) ==
    IF \E i \in 1..Len(s) : MatchAt(s, pat, i)
    THEN CHOOSE i \in 1..Len(s) :
            /\ MatchAt(s, pat, i)
            /\ \A j \in 1..(i - 1) : ~MatchAt(s, pat, j)
    ELSE 0

\* GetSubstitution of ECMAScript for a pattern without capture groups: in the
\* replacement text, $$ stands for $, $& for the match, $` for the text before
\* the match and $' for the text after it; every other character is itself.
RECURSIVE GetSubstitution(_, _, _, _)
GetSubstitution(repl, matched, before, after) ==
    IF repl = << >> THEN << >>
    ELSE IF Head(repl) = "$" /\ Len(repl) >= 2 /\ repl[2] \in { "$", "&", "`", "'" }
    THEN ( CASE repl[2] = "$" -> << "$" >>
             [] repl[2] = "&" -> matched
             [] repl[2] = "`" -> before
             [] repl[2] = "'" -> after )
         \o GetSubstitution(SubSeq(repl, 3, Len(repl)), matched, before, after)
    ELSE << Head(repl) >> \o GetSubstitution(Tail(repl), matched, before, after)

\* template.replace(/{im}/, im): the first match only, the replacement expanded
Replace(template, im) ==
    LET i == IndexOf(template, Placeholder)
        before == SubSeq(template, 1, i - 1)
        after == SubSeq(template, i + Len(Placeholder), Len(template))
    IN  IF i = 0 THEN template
        ELSE before \o GetSubstitution(im, Placeholder, before, after) \o after

----------------------------------------------------------------------------
(* Settings *)

INSERTION_MODE_PREVIOUS == << "_", "P", "R", "E", "V", "I", "O", "U", "S", "_" >>

RawKeys == { "defaultIM", "insertionIM", "obtainCmd", "switchCmd",
             "windowsDefaultIM", "windowsInsertionIM", "windowsObtainCmd",
             "windowsSwitchCmd", "normalModeOnFocus" }

DEFAULT_SETTINGS ==
    [ k \in RawKeys |->
        CASE k \in { "insertionIM", "windowsInsertionIM" } -> INSERTION_MODE_PREVIOUS
          [] k = "normalModeOnFocus" -> FALSE
          [] OTHER -> << >> ]

\* Faulty variant of Assign: a stored value replaces the default only when it
\* is truthy (the idiom `stored.k || default.k').
Assign_SkipEmpty(defaults, stored) ==
    [ k \in (DOMAIN defaults) \cup (DOMAIN stored) |->
        IF /\ k \in DOMAIN stored
           /\ IF k = "normalModeOnFocus" THEN stored[k] ELSE stored[k] # << >>
        THEN stored[k] ELSE defaults[k] ]

\* Object.assign({}, DEFAULT_SETTINGS, stored): the stored keys win
Assign(defaults, stored) ==
    [ k \in (DOMAIN defaults) \cup (DOMAIN stored) |->
        IF k \in DOMAIN stored THEN stored[k] ELSE defaults[k] ]

\* the Settings value loadSettings() builds and returns
loadSettings(stored) ==
    LET s == Assign(DEFAULT_SETTINGS, stored)
    IN  [ normalModeOnFocus |-> s["normalModeOnFocus"],
          windowsPlatformSettings |->
            [ normalIM |-> s["windowsDefaultIM"],
              insertionIM |-> s["windowsInsertionIM"],
              obtainCmd |-> s["windowsObtainCmd"],
              switchCmd |-> s["windowsSwitchCmd"] ],
          defaultPlatformSettings |->
            [ normalIM |-> s["defaultIM"],
              insertionIM |-> s["insertionIM"],
              obtainCmd |-> s["obtainCmd"],
              switchCmd |-> s["switchCmd"] ] ]

\* the RawSettings value saveSettings() hands to saveData
saveSettings(s) ==
    [ k \in RawKeys |->
        CASE k = "normalModeOnFocus" -> s.normalModeOnFocus
          [] k = "defaultIM" -> s.defaultPlatformSettings.normalIM
          [] k = "insertionIM" -> s.defaultPlatformSettings.insertionIM
          [] k = "obtainCmd" -> s.defaultPlatformSettings.obtainCmd
          [] k = "switchCmd" -> s.defaultPlatformSettings.switchCmd
          [] k = "windowsDefaultIM" -> s.windowsPlatformSettings.normalIM
          [] k = "windowsInsertionIM" -> s.windowsPlatformSettings.insertionIM
          [] k = "windowsObtainCmd" -> s.windowsPlatformSettings.obtainCmd
          [] k = "windowsSwitchCmd" -> s.windowsPlatformSettings.switchCmd ]

SettingsDefined == settings # << >>

\* Faulty variant of getPlatformSettings: the platform is not looked at.
getPlatformSettings_DefaultOnly == settings[1].defaultPlatformSettings

\* getPlatformSettings(windows = this.isWinPlatform); a TypeError while
\* this.settings is undefined, which the callers test with SettingsDefined
getPlatformSettings ==
    IF isWinPlatform THEN settings[1].windowsPlatformSettings
    ELSE settings[1].defaultPlatformSettings

----------------------------------------------------------------------------
(* Values the environment supplies *)

\* what the editor hands to the 'vim-mode-change' listener: nothing at all
\* (present = FALSE), or an object with `keys' own keys, one of which may be mode
Payload(present, keys, hasMode, mode) ==
    [ present |-> present, keys |-> keys, hasMode |-> hasMode, mode |-> mode ]

ModeObj(mode) == Payload(TRUE, 1, TRUE, mode)
EmptyObj == Payload(TRUE, 0, FALSE, Undefined)
NoModeObj == Payload(TRUE, 1, FALSE, Undefined)
Absent == Payload(FALSE, 0, FALSE, Undefined)
NoObj == Absent

VimModes == { "insert", "normal", "visual" }

Payloads == { ModeObj(m) : m \in VimModes } \cup { EmptyObj, NoModeObj, Absent }

\* the standard output of a successful obtain command
Stdouts == { << "p", "\n" >>, << "q" >> }

\* what the data store may hold when the plugin starts: nothing, or the keys of
\* an installation that never stored insertionIM (so that the default platform
\* falls back on the sentinel of DEFAULT_SETTINGS)
StoredSome ==
    [ k \in RawKeys \ { "insertionIM" } |->
        CASE k = "defaultIM" -> << "e" >>
          [] k = "obtainCmd" -> << "g" >>
          [] k = "switchCmd" -> << "s", "{", "i", "m", "}" >>
          [] k = "windowsDefaultIM" -> << "w" >>
          [] k = "windowsInsertionIM" -> << "d" >>
          [] k = "windowsObtainCmd" -> << "G" >>
          [] k = "windowsSwitchCmd" -> << "S", "{", "i", "m", "}", "{", "i", "m", "}" >>
          [] k = "normalModeOnFocus" -> TRUE ]

StoredChoices == { << >>, StoredSome }


----------------------------------------------------------------------------
(* Effects of a step, in the order the code produces them *)

Fx(op, arg) == [ op |-> op, arg |-> arg ]

Call(fn) == Fx(fn, << >>)
Exec(cmd) == Fx("exec", cmd)
ShowError == Fx("showError", << >>)
Throw == Fx("throw", << >>)

\* the outcome of running a function up to its next await on a child process:
\* where it stands ("obtain" or "switch" while it waits, "returned" or "threw"
\* once it has ended), what it did, and the values it leaves in previousIMEMode
\* and previousVimMode
Run(pc, fx, im, vm) == [ pc |-> pc, fx |-> fx, im |-> im, vm |-> vm ]

----------------------------------------------------------------------------
(* The code *)

isEmpty(obj) == obj.present /\ obj.keys = 0

\* modeObj.mode
ModeOf(obj) == IF obj.hasMode THEN obj.mode ELSE Undefined

\* child_process refuses an empty command at the call: the failure reaches the
\* catch in the same run, and no process is waited for
FailsAtOnce(cmd) == cmd = << >>

\* execSwitch(im), up to `await exec(cmd)'
execSwitch(im) ==
    IF ~SettingsDefined
    THEN Run("threw", << Throw >>, previousIMEMode, previousVimMode)
    ELSE LET cmd == Replace(getPlatformSettings.switchCmd, im)
         IN  IF FailsAtOnce(cmd)
             THEN Run("returned", << Exec(cmd), ShowError >>,
                      previousIMEMode, previousVimMode)
             ELSE Run("switch", << Exec(cmd) >>, previousIMEMode, previousVimMode)

\* Faulty variant of onInsertMode: the configured insertionIM is ignored and the
\* snapshot is always restored.
onInsertMode_AlwaysPrevious == previousIMEMode

\* onInsert, lines 141-144: the IME to switch to, Null when there is none
onInsertMode ==
    LET mode == getPlatformSettings.insertionIM
    IN  IF mode = INSERTION_MODE_PREVIOUS THEN previousIMEMode ELSE mode

\* Faulty variant of onInsert: the test `mode === null' is missing.
onInsert_NoNullCheck ==
    IF ~SettingsDefined
    THEN Run("threw", << Call("onInsert"), Throw >>, previousIMEMode, previousVimMode)
    ELSE LET r == execSwitch(onInsertMode)
         IN  Run(r.pc, << Call("onInsert") >> \o r.fx, r.im, r.vm)

\* onInsert(), up to the await in execSwitch
onInsert ==
    IF ~SettingsDefined
    THEN Run("threw", << Call("onInsert"), Throw >>, previousIMEMode, previousVimMode)
    ELSE IF onInsertMode = Null
    THEN Run("returned", << Call("onInsert") >>, previousIMEMode, previousVimMode)
    ELSE LET r == execSwitch(onInsertMode)
         IN  Run(r.pc, << Call("onInsert") >> \o r.fx, r.im, r.vm)

\* Faulty variant of onNormalResume: a failed obtain command clears the
\* snapshot.
onNormalResume_ClearOnFailure(ok, stdout) ==
    LET r == execSwitch(getPlatformSettings.normalIM)
    IN  Run(r.pc,
            (IF ok THEN << >> ELSE << ShowError >>) \o r.fx,
            IF ok THEN stdout ELSE Null,
            previousVimMode)

\* onNormal() from the end of the obtain command, lines 168-172: the snapshot
\* or the error report, then execSwitch up to its await
onNormalResume(ok, stdout) ==
    LET r == execSwitch(getPlatformSettings.normalIM)
    IN  Run(r.pc,
            (IF ok THEN << >> ELSE << ShowError >>) \o r.fx,
            IF ok THEN stdout ELSE previousIMEMode,
            previousVimMode)

\* onNormal(), up to `await exec(obtainCmd)'
onNormal ==
    IF ~SettingsDefined
    THEN Run("threw", << Call("onNormal"), Throw >>, previousIMEMode, previousVimMode)
    ELSE LET cmd == getPlatformSettings.obtainCmd
             r == onNormalResume(FALSE, << >>)
         IN  IF FailsAtOnce(cmd)
             THEN Run(r.pc, << Call("onNormal"), Exec(cmd) >> \o r.fx, r.im, r.vm)
             ELSE Run("obtain", << Call("onNormal"), Exec(cmd) >>,
                      previousIMEMode, previousVimMode)

\* Faulty variant of leavesInsert: every notification of another mode counts
\* as leaving insert mode.
leavesInsert_Always == TRUE

\* the default branch of onVimModeChanged calls onNormal
leavesInsert == previousVimMode = "insert"

\* line 191, reached when the IME action r has returned
SetPreviousVimMode(r, mode) ==
    IF r.pc = "returned" THEN Run("returned", r.fx, r.im, mode) ELSE r

\* Faulty variant of onVimModeChanged: an "insert" notification that follows
\* another one is dropped.
onVimModeChanged_Dedup(obj) ==
    IF ~obj.present
    THEN Run("threw", << Throw >>, previousIMEMode, previousVimMode)
    ELSE IF isEmpty(obj)
    THEN Run("returned", << >>, previousIMEMode, previousVimMode)
    ELSE IF ModeOf(obj) = "insert"
    THEN IF previousVimMode = "insert"
         THEN Run("returned", << >>, previousIMEMode, previousVimMode)
         ELSE SetPreviousVimMode(onInsert, ModeOf(obj))
    ELSE IF leavesInsert
    THEN SetPreviousVimMode(onNormal, ModeOf(obj))
    ELSE Run("returned", << >>, previousIMEMode, ModeOf(obj))

\* onVimModeChanged(modeObj), up to its first await on a child process
onVimModeChanged(obj) ==
    IF ~obj.present
    THEN Run("threw", << Throw >>, previousIMEMode, previousVimMode)
    ELSE IF isEmpty(obj)
    THEN Run("returned", << >>, previousIMEMode, previousVimMode)
    ELSE IF ModeOf(obj) = "insert"
    THEN SetPreviousVimMode(onInsert, ModeOf(obj))
    ELSE IF leavesInsert
    THEN SetPreviousVimMode(onNormal, ModeOf(obj))
    ELSE Run("returned", << >>, previousIMEMode, ModeOf(obj))

\* the rest of a handler once its IME action r has got past an await: line 191
\* when the handler is onVimModeChanged
AfterAwait(task, r) ==
    IF task.handler = "mode" THEN SetPreviousVimMode(r, task.mode) ELSE r

\* Faulty variant of execSwitchResume: the failure of the switch command is
\* not caught.
execSwitchResume_Rethrow(ok) ==
    IF ok
    THEN Run("returned", << >>, previousIMEMode, previousVimMode)
    ELSE Run("threw", << Throw >>, previousIMEMode, previousVimMode)

\* execSwitch from the end of the switch command: the catch, then the return
execSwitchResume(ok) ==
    Run("returned", IF ok THEN << >> ELSE << ShowError >>,
        previousIMEMode, previousVimMode)

----------------------------------------------------------------------------
(* State machine *)

Task(handler, obj, pc) == [ handler |-> handler, mode |-> ModeOf(obj), pc |-> pc ]

\* ok and stdout are the outcome of the child process that ended in the step
Out(ev, handler, obj, ok, stdout, fx) ==
    [ ev |-> ev, handler |-> handler, obj |-> obj, ok |-> ok, stdout |-> stdout,
      fx |-> fx ]

\* the IME action a run of a handler began with, "none" when it called none
Invoked(fx) ==
    IF fx # << >> /\ fx[1].op \in { "onInsert", "onNormal" } THEN fx[1].op ELSE "none"

\* the notifications of the test "normal, insert, normal"
Scenario == << "normal", "insert", "normal" >>

Seen(modes, calls) == [ modes |-> modes, calls |-> calls ]

\* the behaviour has left the scenario
OffScenario == Seen(<< "-" >>, << >>)

IsPrefix(s, t) == Len(s) <= Len(t) /\ SubSeq(t, 1, Len(s)) = s

\* seen after the delivery of obj, whose handler began with the effects fx
SeenAfter(obj, fx) ==
    IF /\ seen # OffScenario
       /\ obj.present
       /\ obj.hasMode
       /\ IsPrefix(Append(seen.modes, obj.mode), Scenario)
    THEN Seen(Append(seen.modes, obj.mode),
              IF Invoked(fx) = "none" THEN seen.calls
              ELSE Append(seen.calls, Invoked(fx)))
    ELSE OffScenario

OsTypes == { "Windows_NT", "Linux" }

\* The fields as the class body initialises them (lines 79-82).  `settings' is
\* a public field without initialiser that no line of main.ts assigns (onload
\* drops what loadSettings returns), so it is undefined unless the code that
\* embeds the plugin has assigned it; both cases are started from.
Init ==
    /\ data \in StoredChoices
    /\ settings \in { << >>, << loadSettings(data) >> }
    /\ osType \in OsTypes
    /\ previousIMEMode = Null
    /\ previousVimMode = ""
    /\ isWinPlatform = FALSE
    /\ loaded = FALSE
    /\ fileOpenOn = FALSE
    /\ focusOn = FALSE
    /\ tasks = << >>
    /\ out = Out("init", "none", NoObj, TRUE, << >>, << >>)
    /\ seen = Seen(<< >>, << >>)
    /\ insertSeen = FALSE
    /\ leftWith = Null

\* Faulty variant of OnLoad: line 115 is missing, previousIMEMode is left as
\* it is.
OnLoad_NoFirstSnapshot ==
    /\ ~loaded
    /\ loaded' = TRUE
    /\ fileOpenOn' = TRUE
    /\ isWinPlatform' = (osType = "Windows_NT")
    /\ previousIMEMode' = previousIMEMode
    /\ IF SettingsDefined
       THEN /\ focusOn' = settings[1].normalModeOnFocus
            /\ out' = Out("onload", "none", NoObj, TRUE, << >>, << >>)
       ELSE /\ focusOn' = FALSE
            /\ out' = Out("onload", "none", NoObj, TRUE, << >>, << Throw >>)
    /\ leftWith' = Null
    /\ UNCHANGED << settings, data, previousVimMode, osType, tasks, seen, insertSeen >>

\* onload(): the value of loadSettings() is dropped, the handlers are
\* registered, the platform is detected; line 115 reads this.settings
OnLoad ==
    /\ ~loaded
    /\ loaded' = TRUE
    /\ fileOpenOn' = TRUE
    /\ isWinPlatform' = (osType = "Windows_NT")
    /\ IF SettingsDefined
       THEN /\ previousIMEMode' =
                (IF isWinPlatform' THEN settings[1].windowsPlatformSettings
                 ELSE settings[1].defaultPlatformSettings).normalIM
            /\ focusOn' = settings[1].normalModeOnFocus
            /\ out' = Out("onload", "none", NoObj, TRUE, << >>, << >>)
       ELSE /\ previousIMEMode' = previousIMEMode
            /\ focusOn' = FALSE
            /\ out' = Out("onload", "none", NoObj, TRUE, << >>, << Throw >>)
    /\ leftWith' = Null
    /\ UNCHANGED << settings, data, previousVimMode, osType, tasks, seen, insertSeen >>

\* a handler starts and runs up to its first await on a child process, or to its end
Start(handler, obj, ev, r) ==
    /\ IF r.pc \in { "obtain", "switch" }
       THEN /\ Len(tasks) < MaxInFlight
            /\ tasks' = Append(tasks, Task(handler, obj, r.pc))
       ELSE tasks' = tasks
    /\ previousIMEMode' = r.im
    /\ previousVimMode' = r.vm
    /\ out' = Out(ev, handler, obj, TRUE, << >>, r.fx)
    /\ seen' = IF handler = "mode" THEN SeenAfter(obj, r.fx) ELSE seen
    /\ insertSeen' = (insertSeen \/ (handler = "mode" /\ obj.present /\ ModeOf(obj) = "insert"))
    /\ leftWith' = IF \E k \in 1..Len(r.fx) : r.fx[k] \in { ShowError, Throw }
                   THEN Null ELSE leftWith
    /\ UNCHANGED << settings, data, isWinPlatform, osType, loaded, fileOpenOn,
                    focusOn >>

\* the editor signals 'vim-mode-change'
Notify(obj) == Start("mode", obj, "notify", onVimModeChanged(obj))

\* Faulty variant of fileOpenHandler: guarded like the focus listener.
fileOpenHandler_UnlessInsert ==
    IF previousVimMode = "insert"
    THEN Run("returned", << >>, previousIMEMode, previousVimMode)
    ELSE onNormal

\* the 'file-open' listener of onload, lines 105-107
fileOpenHandler == onNormal

\* the workspace signals 'file-open'
FileOpen ==
    /\ fileOpenOn
    /\ Start("fileOpen", NoObj, "fileOpen", fileOpenHandler)

\* Faulty variant of focusCallsOnNormal: the setting is read at every event.
focusCallsOnNormal_Live ==
    SettingsDefined /\ settings[1].normalModeOnFocus /\ previousVimMode # "insert"

\* the focus listener of onload, lines 122-127
focusCallsOnNormal == focusOn /\ previousVimMode # "insert"

\* the window gains focus
Focus ==
    IF focusCallsOnNormal
    THEN Start("focus", NoObj, "focus", onNormal)
    ELSE /\ out' = Out("focus", "focus", NoObj, TRUE, << >>, << >>)
         /\ UNCHANGED << settings, data, previousIMEMode, previousVimMode,
                         isWinPlatform, osType, loaded, fileOpenOn, focusOn,
                         tasks, seen, insertSeen, leftWith >>

Remove(s, i) == SubSeq(s, 1, i - 1) \o SubSeq(s, i + 1, Len(s))

\* a handler resumes after a child process has ended
Resume(i, ev, ok, stdout, r) ==
    /\ tasks' = IF r.pc \in { "returned", "threw" } THEN Remove(tasks, i)
                ELSE [ tasks EXCEPT ![i].pc = r.pc ]
    /\ previousIMEMode' = r.im
    /\ previousVimMode' = r.vm
    /\ out' = Out(ev, tasks[i].handler, NoObj, ok, stdout, r.fx)
    /\ leftWith' = IF ~ok THEN Null
                   ELSE IF ev = "obtainDone" /\ tasks[i].handler = "mode"
                   THEN (IF tasks[i].mode \in VimModes THEN stdout ELSE Null)
                   ELSE leftWith
    /\ UNCHANGED << settings, data, isWinPlatform, osType, loaded, fileOpenOn,
                    focusOn, seen, insertSeen >>

\* the obtain command of task i ends
ObtainDone(i, ok, stdout) ==
    /\ tasks[i].pc = "obtain"
    /\ Resume(i, "obtainDone", ok, stdout,
              AfterAwait(tasks[i], onNormalResume(ok, stdout)))

\* the switch command of task i ends
SwitchDone(i, ok) ==
    /\ tasks[i].pc = "switch"
    /\ Resume(i, "switchDone", ok, << >>, AfterAwait(tasks[i], execSwitchResume(ok)))

\* the toggle "Switch Vim mode to normal on window focus" of the settings tab:
\* the field is written, then saveSettings() stores the flattened settings
ToggleFocus(value) ==
    /\ loaded
    /\ SettingsDefined
    /\ settings' = << [ settings[1] EXCEPT !.normalModeOnFocus = value ] >>
    /\ data' = saveSettings(settings'[1])
    /\ out' = Out("toggle", "none", NoObj, TRUE, << >>, << >>)
    /\ UNCHANGED << previousIMEMode, previousVimMode, isWinPlatform, osType,
                    loaded, fileOpenOn, focusOn, tasks, seen, insertSeen, leftWith >>

Next ==
    \/ OnLoad
    \/ \E obj \in Payloads : Notify(obj)
    \/ FileOpen
    \/ Focus
    \/ \E i \in 1..Len(tasks) : \E stdout \in Stdouts : ObtainDone(i, TRUE, stdout)
    \/ \E i \in 1..Len(tasks) : ObtainDone(i, FALSE, << >>)
    \/ \E i \in 1..Len(tasks) : \E ok \in BOOLEAN : SwitchDone(i, ok)
    \/ \E value \in BOOLEAN : ToggleFocus(value)

Spec == Init /\ [][Next]_vars

----------------------------------------------------------------------------
(* execSwitch on its own: the method is called with every template and
   every identifier of two small sets *)

\* switchCmd templates: without a placeholder, with one, with two, with a
\* broken one before a whole one
Templates ==
    { << "s" >>,
      << "s", "{", "i", "m", "}" >>,
      << "{", "i", "m", "}", "s" >>,
      << "a", "{", "i", "m", "}", "b", "{", "i", "m", "}" >>,
      << "{", "i", "{", "i", "m", "}" >> }

\* IME identifiers, among them ones with the characters that
\* String.prototype.replace reads as patterns in a replacement text
Ims ==
    { << "x" >>, << "x", "y" >>, << "{", "i", "m", "}" >>, << "$" >>,
      << "$", "$" >>, << "$", "&" >>, << "a", "$", "'" >>, << "$", "1" >> }

\* a data store that holds template as the switch command of both platforms
StoredTemplate(template) ==
    [ k \in { "switchCmd", "windowsSwitchCmd" } |-> template ]

InitExecSwitch ==
    /\ data \in { StoredTemplate(t) : t \in Templates }
    /\ settings = << loadSettings(data) >>
    /\ osType \in OsTypes
    /\ previousIMEMode = Null
    /\ previousVimMode = ""
    /\ isWinPlatform = FALSE
    /\ loaded = FALSE
    /\ fileOpenOn = FALSE
    /\ focusOn = FALSE
    /\ tasks = << >>
    /\ out = Out("init", "none", NoObj, TRUE, << >>, << >>)
    /\ seen = Seen(<< >>, << >>)
    /\ insertSeen = FALSE
    /\ leftWith = Null

\* execSwitch(im) is called; out.obj keeps the argument
ExecSwitchCall(im) ==
    LET r == execSwitch(im)
    IN  /\ IF r.pc = "switch"
           THEN /\ Len(tasks) < MaxInFlight
                /\ tasks' = Append(tasks, Task("execSwitch", NoObj, r.pc))
           ELSE tasks' = tasks
        /\ out' = Out("execSwitch", "execSwitch", im, TRUE, << >>, r.fx)
        /\ UNCHANGED << settings, data, previousIMEMode, previousVimMode,
                        isWinPlatform, osType, loaded, fileOpenOn, focusOn,
                        seen, insertSeen, leftWith >>

NextExecSwitch ==
    \/ \E im \in Ims : ExecSwitchCall(im)
    \/ \E i \in 1..Len(tasks) : \E ok \in BOOLEAN : SwitchDone(i, ok)

SpecExecSwitch == InitExecSwitch /\ [][NextExecSwitch]_vars

----------------------------------------------------------------------------
(* The settings tab on its own: every field is edited to every value of a
   small set, and every edit saves the settings *)

Platforms == { "defaultPlatformSettings", "windowsPlatformSettings" }

PlatformFields == { "normalIM", "insertionIM", "obtainCmd", "switchCmd" }

\* what the user types into a text field
TypedValues == { << >>, << "a" >>, INSERTION_MODE_PREVIOUS }

\* onChange of a text field of createPlatformSettingView: the field of the
\* platform's record is written, then saveSettings() stores the flattened
\* settings
EditField(platform, field, value) ==
    /\ loaded
    /\ SettingsDefined
    /\ settings' = << [ settings[1] EXCEPT ![platform][field] = value ] >>
    /\ data' = saveSettings(settings'[1])
    /\ out' = Out("edit", "none", NoObj, TRUE, << >>, << >>)
    /\ UNCHANGED << previousIMEMode, previousVimMode, isWinPlatform, osType,
                    loaded, fileOpenOn, focusOn, tasks, seen, insertSeen, leftWith >>

InitSettings == Init /\ SettingsDefined /\ osType = "Linux"

NextSettings ==
    \/ OnLoad
    \/ \E platform \in Platforms : \E field \in PlatformFields :
         \E value \in TypedValues : EditField(platform, field, value)
    \/ \E value \in BOOLEAN : ToggleFocus(value)

SpecSettings == InitSettings /\ [][NextSettings]_vars

----------------------------------------------------------------------------
(* What the claims speak of *)

\* the last step invoked the IME action fn
Calls(fn) == Invoked(out.fx) = fn

\* the commands the last step handed to exec, in order
Executed == SelectSeq(out.fx, LAMBDA e : e.op = "exec")

\* the last step reported an error to the sink
Reported == \E k \in 1..Len(out.fx) : out.fx[k] = ShowError

\* the last step delivered a mode notification whose mode is m
Delivered(m) == out.ev = "notify" /\ out.obj.present /\ ModeOf(out.obj) = m

\* template with the first {im} replaced by im, character for character
SubstFirst(template, im) ==
    LET i == IndexOf(template, Placeholder)
    IN  IF i = 0 THEN template
        ELSE SubSeq(template, 1, i - 1) \o im
             \o SubSeq(template, i + Len(Placeholder), Len(template))

\* the switch command for im under the active platform's template
SwitchCmdFor(im) == Exec(SubstFirst(getPlatformSettings.switchCmd, im))

RECURSIVE TrimStart(_)
TrimStart(str) ==
    IF str # << >> /\ Head(str) \in Whitespace THEN TrimStart(Tail(str)) ELSE str

RECURSIVE TrimEnd(_)
TrimEnd(str) ==
    IF str # << >> /\ str[Len(str)] \in Whitespace
    THEN TrimEnd(SubSeq(str, 1, Len(str) - 1)) ELSE str

Trim(str) == TrimEnd(TrimStart(str))

----------------------------------------------------------------------------
(* Claims *)

\* C1: the notifications normal, insert, normal cause exactly one onInsert and
\* exactly one onNormal, onInsert first.  Stated here for a plugin whose
\* settings are populated; it fails when the third notification arrives while
\* the switch command of the second is still running.
C1_OneInsertThenOneNormal ==
    (SettingsDefined /\ seen.modes = Scenario)
        => seen.calls = << "onInsert", "onNormal" >>

C1_Witness ==
    /\ SettingsDefined
    /\ seen = Seen(Scenario, << "onInsert", "onNormal" >>)

\* C2: a notification of a mode other than "insert" calls onNormal only when
\* previousVimMode is "insert", and otherwise does nothing but store the mode;
\* as long as no "insert" notification has been delivered, previousVimMode is
\* not "insert", no mode-change handler waits for a command and none has
\* invoked an IME action or run a command.
C2_NoImeActionWithoutInsert ==
    [][ /\ ( /\ out'.ev = "notify"
             /\ out'.obj.present
             /\ ModeOf(out'.obj) # "insert"
             /\ previousVimMode # "insert" )
           => out'.fx = << >>
        /\ ~insertSeen'
           => /\ previousVimMode' # "insert"
              /\ \A i \in 1..Len(tasks') : tasks'[i].handler # "mode"
              /\ out'.handler = "mode" => out'.fx \in { << >>, << Throw >> }
      ]_vars

C2_Witness ==
    /\ ~insertSeen
    /\ SettingsDefined
    /\ loaded
    /\ Delivered("normal")
    /\ seen.modes = << "-" >>
    /\ out.fx = << >>

\* C3: every call of onNormal runs the switch command for the active
\* platform's normalIM, whether its obtain command succeeded or failed: the
\* call hands a command to exec, and when that is an obtain command which
\* fails at once the failure is reported and the switch command follows in the
\* same step; when the obtain command ends later, the switch command is run
\* then, after the report of a failure.  It fails where settings is undefined:
\* onNormal throws in getPlatformSettings before any command.
C3_EveryOnNormalSwitches ==
    /\ Calls("onNormal")
        => /\ Executed # << >>
           /\ SettingsDefined
           /\ Executed[1] = Exec(getPlatformSettings.obtainCmd)
           /\ IF FailsAtOnce(getPlatformSettings.obtainCmd)
              THEN /\ Len(Executed) = 2
                   /\ Executed[2] = SwitchCmdFor(getPlatformSettings.normalIM)
                   /\ out.fx[3] = ShowError
              ELSE /\ Len(Executed) = 1
                   /\ tasks # << >>
                   /\ tasks[Len(tasks)].pc = "obtain"
    /\ out.ev = "obtainDone"
        => /\ Executed = << SwitchCmdFor(getPlatformSettings.normalIM) >>
           /\ ~out.ok => out.fx[1] = ShowError

\* C3, where settings is populated: a failed obtain command has been reported
\* and the switch command for normalIM has been run all the same.
C3_Witness ==
    /\ out.ev = "obtainDone"
    /\ ~out.ok
    /\ Reported
    /\ Executed = << SwitchCmdFor(getPlatformSettings.normalIM) >>

\* C4: an "insert" notification with insertionIM = _PREVIOUS_ and
\* previousIMEMode = v (not null) runs the switch command for v; with any
\* other insertionIM s it runs the switch command for s.
C4_InsertionTarget ==
    (Delivered("insert") /\ SettingsDefined)
        => LET ins == getPlatformSettings.insertionIM
           IN  /\ (ins = INSERTION_MODE_PREVIOUS /\ previousIMEMode # Null)
                    => /\ Calls("onInsert")
                       /\ Executed = << SwitchCmdFor(previousIMEMode) >>
               /\ ins # INSERTION_MODE_PREVIOUS
                    => /\ Calls("onInsert")
                       /\ Executed = << SwitchCmdFor(ins) >>

C4_Witness ==
    /\ Delivered("insert")
    /\ SettingsDefined
    /\ getPlatformSettings.insertionIM = INSERTION_MODE_PREVIOUS
    /\ previousIMEMode = << "q" >>
    /\ Executed = << Exec(<< "s", "q" >>) >>

\* C5: with insertionIM = _PREVIOUS_ and previousIMEMode = null, onInsert
\* returns at once: no command is run, nothing is reported and neither
\* previousIMEMode nor previousVimMode is changed by it.
C5_NothingWithoutSnapshot ==
    ( /\ SettingsDefined
      /\ getPlatformSettings.insertionIM = INSERTION_MODE_PREVIOUS
      /\ previousIMEMode = Null )
        => /\ onInsert = Run("returned", << Call("onInsert") >>,
                             previousIMEMode, previousVimMode)
           /\ Delivered("insert") => out.fx = << Call("onInsert") >>

C5_Witness ==
    /\ SettingsDefined
    /\ getPlatformSettings.insertionIM = INSERTION_MODE_PREVIOUS
    /\ previousIMEMode = Null
    /\ Delivered("insert")
    /\ out.fx = << Call("onInsert") >>
    /\ tasks = << >>

\* C6: when the obtain command of onNormal succeeds, previousIMEMode is the
\* trimmed standard output of that command.
C6_SnapshotIsTrimmed ==
    (out.ev = "obtainDone" /\ out.ok) => previousIMEMode = Trim(out.stdout)

\* C7: every file-open notification calls onNormal, whatever previousVimMode
\* is, and no step of the file-open handler changes previousVimMode.
C7_FileOpenAlwaysNormal ==
    [][ out'.handler = "fileOpen"
          => /\ previousVimMode' = previousVimMode
             /\ out'.ev = "fileOpen" => Invoked(out'.fx) = "onNormal"
      ]_vars

C7_Witness ==
    /\ out.ev = "fileOpen"
    /\ Calls("onNormal")
    /\ previousVimMode = "insert"
    /\ Executed # << >>

\* the setting as it stands now
FocusEnabled == SettingsDefined /\ settings[1].normalModeOnFocus

\* C8 as claimed: once the plugin is loaded, a focus event calls onNormal only
\* when normalModeOnFocus is enabled, and when it is enabled the event calls
\* onNormal unless previousVimMode is "insert".
C8_FocusFollowsSetting ==
    (loaded /\ out.ev = "focus")
        => /\ Calls("onNormal") => FocusEnabled
           /\ (FocusEnabled /\ previousVimMode # "insert") => Calls("onNormal")

\* C8 as amended: the focus listener is registered by onload, and only there,
\* exactly when normalModeOnFocus is enabled at that moment; a focus event
\* calls onNormal exactly when the listener is registered and previousVimMode
\* is not "insert", whatever the setting has been changed to since.
C8_FocusFollowsSettingAtLoad ==
    [][ /\ out'.ev = "onload" => focusOn' = FocusEnabled
        /\ out'.ev # "onload" => focusOn' = focusOn
        /\ out'.ev = "focus"
             => ((Invoked(out'.fx) = "onNormal")
                    <=> (focusOn /\ previousVimMode # "insert"))
      ]_vars

C8_Witness ==
    /\ out.ev = "focus"
    /\ Calls("onNormal")
    /\ focusOn
    /\ ~FocusEnabled

\* C9: a notification without a mode (no payload, an empty object, an object
\* without the key mode) does nothing: no throw, no IME action, no command,
\* previousVimMode and previousIMEMode as they were.
C9_NoModeIsNoOp ==
    [][ (out'.ev = "notify" /\ ~(out'.obj.present /\ out'.obj.hasMode))
          => /\ out'.fx = << >>
             /\ previousVimMode' = previousVimMode
             /\ previousIMEMode' = previousIMEMode
      ]_vars

\* C10: every "insert" notification calls onInsert, the first one and one
\* that follows another "insert" included.
C10_EveryInsertCallsOnInsert ==
    Delivered("insert") => Calls("onInsert")

C10_Witness ==
    /\ Delivered("insert")
    /\ Calls("onInsert")
    /\ previousVimMode = "insert"
    /\ tasks = << [ handler |-> "mode", mode |-> "insert", pc |-> "switch" ] >>

\* the step whose effects are fx threw out of its handler
Threw(fx) == \E k \in 1..Len(fx) : fx[k] = Throw

\* C11: a failed obtain or switch command is caught and reported where it was
\* run and nothing is thrown out of the handler.  A command that fails at the
\* call is reported in the same run, right after the call.  A switch command
\* that ends, failed or not, ends its handler, and the handler of a mode
\* notification then stores that notification's mode in previousVimMode; a
\* failed obtain command is reported first and the handler goes on to the
\* switch command.  A mode handler whose commands all failed at the call has
\* stored the notification's mode when it returns.  What a failure leaves
\* in previousVimMode and in the waiting handlers is what a success leaves, so
\* that later notifications are dispatched alike.
C11_FailuresAreCaught ==
    [][ /\ (out'.ev \in { "obtainDone", "switchDone" } /\ ~out'.ok)
           => /\ out'.fx # << >>
              /\ out'.fx[1] = ShowError
        /\ out'.ev \in { "obtainDone", "switchDone" }
           => /\ ~Threw(out'.fx)
              /\ \E i \in 1..Len(tasks) :
                   /\ tasks[i].handler = out'.handler
                   /\ \/ /\ out'.ev = "obtainDone"
                         /\ tasks[i].pc = "obtain"
                         /\ tasks' = [ tasks EXCEPT ![i].pc = "switch" ]
                         /\ previousVimMode' = previousVimMode
                      \/ /\ tasks[i].pc = IF out'.ev = "obtainDone"
                                          THEN "obtain" ELSE "switch"
                         /\ tasks' = Remove(tasks, i)
                         /\ previousVimMode' = IF tasks[i].handler = "mode"
                                               THEN tasks[i].mode
                                               ELSE previousVimMode
        /\ \A k \in 1..Len(out'.fx) :
             (out'.fx[k].op = "exec" /\ FailsAtOnce(out'.fx[k].arg))
                => /\ k < Len(out'.fx)
                   /\ out'.fx[k + 1] = ShowError
                   /\ ~Threw(out'.fx)
                   /\ (out'.ev = "notify" /\ tasks' = tasks)
                        => previousVimMode' = ModeOf(out'.obj)
      ]_vars

\* a mode handler ends with the failure of its switch command
C11_Witness ==
    /\ out.ev = "switchDone"
    /\ ~out.ok
    /\ out.handler = "mode"
    /\ out.fx = << ShowError >>
    /\ previousVimMode = "normal"
    /\ tasks = << >>

\* C12: the command execSwitch(im) runs is the switchCmd template with its
\* first {im} replaced by im, character for character, and nothing else
\* changed.  It fails for an im that holds $$, $&, $` or $', which
\* String.prototype.replace expands in a replacement text.
C12_FirstPlaceholderVerbatim ==
    out.ev = "execSwitch"
        => Executed = << Exec(SubstFirst(getPlatformSettings.switchCmd, out.obj)) >>

\* an identifier without such characters replaces the first of two placeholders
C12_Witness ==
    /\ out.ev = "execSwitch"
    /\ out.obj = << "x", "y" >>
    /\ getPlatformSettings.switchCmd
         = << "a", "{", "i", "m", "}", "b", "{", "i", "m", "}" >>
    /\ Executed = << Exec(<< "a", "x", "y", "b", "{", "i", "m", "}" >>) >>

\* C13: flattening a Settings value as saveSettings does and rebuilding it as
\* loadSettings does gives the value back, field for field: for every Settings
\* value the tab can produce, and for what the data store holds after each
\* edit.
C13_SettingsRoundTrip ==
    SettingsDefined
        => /\ loadSettings(saveSettings(settings[1])) = settings[1]
           /\ out.ev \in { "edit", "toggle" }
                => /\ data = saveSettings(settings[1])
                   /\ loadSettings(data) = settings[1]

\* an emptied insertionIM and a typed one come back as they are, not as the
\* defaults
C13_Witness ==
    /\ out.ev = "edit"
    /\ settings[1].defaultPlatformSettings.insertionIM = << >>
    /\ settings[1].windowsPlatformSettings.insertionIM = << "a" >>
    /\ settings[1].windowsPlatformSettings.switchCmd = INSERTION_MODE_PREVIOUS
    /\ ~settings[1].normalModeOnFocus
    /\ loadSettings(data) = settings[1]

\* the PlatformSettings record that belongs to the host the plugin runs on
HostSettings ==
    IF osType = "Windows_NT" THEN settings[1].windowsPlatformSettings
    ELSE settings[1].defaultPlatformSettings

\* C14: onload detects the platform from os.type(), and once it has run
\* isWinPlatform never changes.  From then on every step takes all it uses
\* from the record of the detected platform: onNormal runs that record's
\* obtainCmd and then its switchCmd with its normalIM, onInsert runs its
\* switchCmd with its insertionIM (or the snapshot when that is the sentinel).
\* An IME action begun after start-up has all its steps after it, so it never
\* uses fields of both records.
C14_OnePlatformAfterStartup ==
    [][ /\ osType' = osType
        /\ loaded' => isWinPlatform' = (osType = "Windows_NT")
        /\ loaded => (loaded' /\ isWinPlatform' = isWinPlatform)
        /\ (loaded /\ out' # out /\ out'.fx # << >> /\ ~Threw(out'.fx))
           => LET ps == HostSettings
                  execs == SelectSeq(out'.fx, LAMBDA e : e.op = "exec")
                  toNormal == Exec(Replace(ps.switchCmd, ps.normalIM))
                  toInsert ==
                      Exec(Replace(ps.switchCmd,
                                   IF ps.insertionIM = INSERTION_MODE_PREVIOUS
                                   THEN previousIMEMode ELSE ps.insertionIM))
              IN  CASE out'.ev = "obtainDone" -> execs = << toNormal >>
                    [] Invoked(out'.fx) = "onNormal" ->
                         execs = IF FailsAtOnce(ps.obtainCmd)
                                 THEN << Exec(ps.obtainCmd), toNormal >>
                                 ELSE << Exec(ps.obtainCmd) >>
                    [] Invoked(out'.fx) = "onInsert" ->
                         execs \in { << >>, << toInsert >> }
                    [] OTHER -> execs = << >>
      ]_vars

\* on Windows, onNormal goes on with the Windows switch command and normalIM
C14_Witness ==
    /\ loaded
    /\ osType = "Windows_NT"
    /\ isWinPlatform
    /\ out.ev = "obtainDone"
    /\ Executed = << Exec(<< "S", "w", "{", "i", "m", "}" >>) >>

\* C15 as claimed: previousIMEMode is null at first, and the only step that
\* stores a value in it is the end of a successful obtain command, which
\* stores the output of that command.
C15_NullUntilObtained ==
    /\ previousIMEMode = Null
    /\ [][ previousIMEMode' # previousIMEMode
             => /\ out'.ev = "obtainDone"
                /\ out'.ok
                /\ previousIMEMode' = out'.stdout
         ]_vars

\* C15 as amended: previousIMEMode is null until onload, which stores the
\* normalIM of the detected platform in it (and leaves it null when settings
\* is undefined, throwing there); after that the only values stored are the
\* outputs of successful obtain commands, as they are.  An "insert"
\* notification with insertionIM = _PREVIOUS_ therefore runs the switch
\* command for whatever previousIMEMode holds, null excepted: after onload and
\* before any onNormal that is normalIM.
C15_NormalIMThenObtained ==
    /\ previousIMEMode = Null
    /\ [][ /\ previousIMEMode' # previousIMEMode
                => out'.ev \in { "onload", "obtainDone" }
           /\ out'.ev = "onload"
                => previousIMEMode' = IF SettingsDefined THEN HostSettings.normalIM
                                      ELSE previousIMEMode
           /\ out'.ev = "obtainDone"
                => previousIMEMode' = IF out'.ok THEN out'.stdout
                                      ELSE previousIMEMode
           /\ ( /\ out'.ev = "notify"
                /\ out'.obj.present
                /\ ModeOf(out'.obj) = "insert"
                /\ SettingsDefined
                /\ getPlatformSettings.insertionIM = INSERTION_MODE_PREVIOUS )
                => SelectSeq(out'.fx, LAMBDA e : e.op = "exec")
                     = IF previousIMEMode = Null THEN << >>
                       ELSE << Exec(Replace(getPlatformSettings.switchCmd,
                                            previousIMEMode)) >>
         ]_vars

\* after onload and before any successful obtain command, an "insert"
\* notification with the sentinel switches to normalIM
C15_Witness ==
    /\ loaded
    /\ SettingsDefined
    /\ getPlatformSettings.insertionIM = INSERTION_MODE_PREVIOUS
    /\ Delivered("insert")
    /\ previousIMEMode = getPlatformSettings.normalIM
    /\ previousIMEMode = << "e" >>
    /\ Executed = << Exec(<< "s", "e" >>) >>

\* the record out of a step that delivered a notification with the mode m
DeliveredIn(o, m) == o.ev = "notify" /\ o.obj.present /\ o.obj.hasMode /\ o.obj.mode = m

\* C16: while a command is still running (for ever, if it never ends), a mode
\* notification is dispatched as the transition rules say for it and for the
\* notification delivered just before it: onInsert for "insert", onNormal for
\* another mode after "insert", nothing for another mode after another mode.
\* It fails because a handler that waits for its command has not yet stored its
\* mode in previousVimMode.
C16_PendingCommandLeavesDispatchAlone ==
    [][ \A m1, m2 \in VimModes :
          (tasks # << >> /\ DeliveredIn(out, m1) /\ DeliveredIn(out', m2))
             => Invoked(out'.fx) = IF m2 = "insert" THEN "onInsert"
                                   ELSE IF m1 = "insert" THEN "onNormal"
                                   ELSE "none"
      ]_vars

\* C17: whatever the order of notifications and ends of commands, a
\* notification of another mode delivered right after an "insert"
\* notification calls onNormal, also while the switch command of the "insert"
\* notification is running; and when the last waiting handler ends right
\* after the delivery of a notification, previousVimMode is the mode of that
\* notification.  Stated for a plugin whose settings are populated.
C17_LeavingInsertAlwaysCallsOnNormal ==
    [][ SettingsDefined
          => /\ \A m \in VimModes \ { "insert" } :
                  (DeliveredIn(out, "insert") /\ DeliveredIn(out', m))
                     => Invoked(out'.fx) = "onNormal"
             /\ \A m \in VimModes :
                  ( /\ DeliveredIn(out, m)
                    /\ out'.ev \in { "obtainDone", "switchDone" }
                    /\ tasks' = << >> )
                     => previousVimMode' = m
      ]_vars

\* the same, with the second half alone: the handler of an overtaken "insert"
\* notification ends last and stores its own mode
C17_LastWriteIsLastNotification ==
    [][ \A m \in VimModes :
          ( /\ DeliveredIn(out, m)
            /\ out'.ev \in { "obtainDone", "switchDone" }
            /\ tasks' = << >> )
             => previousVimMode' = m
      ]_vars

\* C18: with insertionIM = _PREVIOUS_ and no command failed, an "insert"
\* notification delivered while no handler waits switches to the IME that the
\* obtain command reported when insert mode was last left (since onload),
\* whatever happened in between.  It fails when a
\* file-open or focus event came in between: its onNormal takes a new snapshot
\* over the one taken on leaving insert mode.
C18_RestoresImeOfLastLeave ==
    ( /\ Delivered("insert")
      /\ SettingsDefined
      /\ getPlatformSettings.insertionIM = INSERTION_MODE_PREVIOUS
      /\ leftWith # Null
      /\ Len(tasks) <= 1 )
        => Executed = << Exec(Replace(getPlatformSettings.switchCmd, leftWith)) >>

\* without an event in between, the snapshot taken on leaving is restored
C18_Witness ==
    /\ Delivered("insert")
    /\ SettingsDefined
    /\ getPlatformSettings.insertionIM = INSERTION_MODE_PREVIOUS
    /\ leftWith = << "q" >>
    /\ Executed = << Exec(<< "s", "q" >>) >>

\* C19: once onload has run, settings holds the Settings built from the stored
\* data over DEFAULT_SETTINGS, so that getPlatformSettings has a record to
\* return whenever a handler runs: settings is defined in every state after
\* onload, it is that value right after onload, and onload does not throw.
C19_SettingsLoadedByOnload ==
    /\ loaded => SettingsDefined
    /\ out.ev = "onload"
         => /\ SettingsDefined
            /\ settings[1] = loadSettings(data)
            /\ ~Threw(out.fx)

\* C20: the step in which the obtain command of onNormal fails, at the call
\* or later, leaves previousIMEMode as it is; and onNormal itself never
\* changes previousVimMode: no step of the file-open and focus handlers, which
\* do nothing but call it, changes previousVimMode, and in the handler of a mode
\* notification the only change is line 191, made when onNormal has returned
\* and the handler ends.
C20_FailedObtainKeepsSnapshot ==
    [][ /\ (out'.ev = "obtainDone" /\ ~out'.ok)
             => previousIMEMode' = previousIMEMode
        /\ ( /\ out'.ev \in { "notify", "fileOpen", "focus" }
             /\ Invoked(out'.fx) = "onNormal"
             /\ Len(out'.fx) >= 2
             /\ out'.fx[2].op = "exec"
             /\ FailsAtOnce(out'.fx[2].arg) )
             => previousIMEMode' = previousIMEMode
        /\ out'.handler \in { "fileOpen", "focus" }
             => previousVimMode' = previousVimMode
        /\ (out'.handler = "mode" /\ out'.ev \in { "obtainDone", "switchDone" })
             => \/ previousVimMode' = previousVimMode
                \/ \E i \in 1..Len(tasks) :
                     /\ tasks[i].handler = "mode"
                     /\ tasks' = Remove(tasks, i)
                     /\ previousVimMode' = tasks[i].mode
      ]_vars

\* a failed obtain command has left an earlier snapshot in place
C20_Witness ==
    /\ out.ev = "obtainDone"
    /\ ~out.ok
    /\ Reported
    /\ previousIMEMode = << "q" >>
    /\ previousVimMode = "insert"

====
